---- MODULE Spec2Model ----
(***************************************************************************)
(* Model of list_bom.py: a recursive walk of a fixed root directory that   *)
(* prints the root-relative path of every file with a recognised suffix    *)
(* whose first three bytes are the UTF-8 byte order mark EF BB BF.         *)
(*                                                                         *)
(* A path is a sequence of components (strings); a file's content is a     *)
(* sequence of byte values; standard output is a sequence of lines.        *)
(***************************************************************************)
EXTENDS Integers, Sequences, FiniteSets, TLC

\* ------------------------------------------------------------------ bounds
\* Largest number of files put into the tree under scan.
MaxFiles == 2
\* Number of consecutive runs of the program over the same tree.
NumRuns == 2

\* ------------------------------------------------- constants of the program
\* root = r"D:\\Balaji_DS_Portfolio\\CRM_BenchSales_AI_Integration"
Root == <<"D:", "Balaji_DS_Portfolio", "CRM_BenchSales_AI_Integration">>

\* The tuple of suffixes given to name.endswith.
Extensions == {".json", ".jsonc", ".mjs", ".js", ".ts", ".yaml", ".yml"}

\* b'\xef\xbb\xbf'
BOM == <<239, 187, 191>>

\* The argument of f.read.
ReadSize == 3

\* The mode given to open.
OpenModeW == "wb"
\* open(path, 'rb')
OpenMode == "rb"

\* os.sep, written between the components of a printed path.
Sep == "/"

\* ------------------------------------------------------------ pure helpers
Min(a, b) == IF a < b THEN a ELSE b

Range(s) == {s[i] : i \in DOMAIN s}

\* All orders in which a directory listing may return the set S.
Perms(S) ==
  {s \in [1..Cardinality(S) -> S] : \A i, j \in DOMAIN s : s[i] = s[j] => i = j}

\* str.lower on the characters the names use.
Lower(c) ==
  CASE c = "J" -> "j" [] c = "S" -> "s" [] c = "O" -> "o" [] c = "N" -> "n"
    [] c = "X" -> "x" [] OTHER -> c

RECURSIVE LowerStr(_)
LowerStr(s) ==
  IF Len(s) = 0 THEN s ELSE Lower(SubSeq(s, 1, 1)) \o LowerStr(SubSeq(s, 2, Len(s)))

\* A case-insensitive suffix test.
EndsWithNoCase(name, suffix) ==
  /\ Len(name) >= Len(suffix)
  /\ LowerStr(SubSeq(name, Len(name) - Len(suffix) + 1, Len(name))) = suffix

\* str.endswith(suffix): exact, case-sensitive suffix match.
EndsWith(name, suffix) ==
  /\ Len(name) >= Len(suffix)
  /\ SubSeq(name, Len(name) - Len(suffix) + 1, Len(name)) = suffix

\* name.endswith((...)): one of the suffixes of the tuple matches.
EndsWithAny(name) == \E suffix \in Extensions : EndsWith(name, suffix)

\* The prefix test with its operands exchanged.
StartsWithSwapped(head, prefix) ==
  /\ Len(prefix) >= Len(head)
  /\ SubSeq(prefix, 1, Len(head)) = head

\* bytes.startswith(prefix)
StartsWith(head, prefix) ==
  /\ Len(head) >= Len(prefix)
  /\ SubSeq(head, 1, Len(prefix)) = prefix

\* A read of one byte more than asked.
ReadOneMore(data, n) == SubSeq(data, 1, Min(n + 1, Len(data)))
\* f.read(n) on a freshly opened file: at most n bytes, fewer on a short file.
Read(data, n) == SubSeq(data, 1, Min(n, Len(data)))

\* os.path.join(dirpath, name)
Join(dirpath, name) == Append(dirpath, name)

\* Length of the longest common prefix of two paths.
RECURSIVE CommonLen(_, _)
CommonLen(p, q) ==
  IF Len(p) = 0 \/ Len(q) = 0 \/ Head(p) # Head(q)
    THEN 0
    ELSE 1 + CommonLen(Tail(p), Tail(q))

\* The last component only.
BaseName(path, start) == <<path[Len(path)]>>

\* os.path.relpath(path, start): ".." for every component of start below the
\* common prefix, then the rest of path.
RelPath(path, start) ==
  LET i == CommonLen(path, start)
  IN  [k \in 1..(Len(start) - i) |-> ".."] \o SubSeq(path, i + 1, Len(path))

\* The text of a relative path: its components joined by os.sep.
RECURSIVE PathStr(_)
PathStr(rel) ==
  IF Len(rel) = 0 THEN "."
  ELSE IF Len(rel) = 1 THEN rel[1]
  ELSE rel[1] \o Sep \o PathStr(Tail(rel))

\* The characters an ASCII codec can encode, among those the names use.
AsciiText == "abcdefghijklmnopqrstuvwxyzABCDEFGHIJKLMNOPQRSTUVWXYZ0123456789._/:-"
AsciiChars == {SubSeq(AsciiText, i, i) : i \in 1..Len(AsciiText)}

\* Whether sys.stdout's codec (errors=strict) can encode the text.
CanEncode(enc, text) ==
  \/ enc = "utf-8"
  \/ \A i \in 1..Len(text) : SubSeq(text, i, i) \in AsciiChars

\* A line put before the lines already written.
WriteLineFirst(stdout, line) == <<line>> \o stdout
\* print(rel) adds one line to standard output.
WriteLine(stdout, line) == Append(stdout, line)

\* The exceptions the library calls of the model raise.
OSErrors ==
  {"FileNotFoundError", "NotADirectoryError", "IsADirectoryError",
   "PermissionError", "OSError"}
\* "except FileNotFoundError" and "except OSError" catch less.
CaughtFileNotFound(exc) == exc = "FileNotFoundError"
CaughtOSError(exc) == exc \in OSErrors
\* "except Exception"
Caught(exc) == exc \in OSErrors \cup {"UnicodeEncodeError", "ValueError"}

\* os.walk with an onerror that raises.
WalkOnErrorRaise == "raise"
\* os.walk(root) is called without onerror: a failed listing is ignored.
WalkOnError == "ignore"

\* A handler that leaves the for loop.
ExceptBreak(names) == <<>>
\* "except Exception: pass" inside the for loop: the loop goes on with the
\* names that remain.
ExceptPass(names) == Tail(names)

\* ------------------------------------------------------- the tree under scan
\* An entry of the file system: a directory or a file with its content, and
\* how access to it goes: "ok", "noperm" (listing or opening it is denied),
\* "ioerr" (it opens, reading it fails).
Dir(acc) == [kind |-> "dir", data |-> <<>>, acc |-> acc]
File(data, acc) == [kind |-> "file", data |-> data, acc |-> acc]

\* The directories of every tree: sub, sub/x.json (a directory whose name has
\* a recognised suffix) and locked (a directory that cannot be listed).
Skeleton ==
  (Root :> Dir("ok"))
  @@ (Join(Root, "sub") :> Dir("ok"))
  @@ (Join(Join(Root, "sub"), "x.json") :> Dir("ok"))
  @@ (Join(Root, "locked") :> Dir("noperm"))

Brace == <<123, 125>>

\* The files a tree is drawn from: place, content, access.
Catalog ==
  { [rel |-> <<"a.json">>,    data |-> BOM \o Brace,         acc |-> "ok"],
    [rel |-> <<"b.ts">>,      data |-> <<101, 120, 112>>,    acc |-> "ok"],
    [rel |-> <<"c.txt">>,     data |-> BOM \o Brace,         acc |-> "ok"],
    [rel |-> <<"X.JSON">>,    data |-> BOM,                  acc |-> "ok"],
    [rel |-> <<"json">>,      data |-> BOM,                  acc |-> "ok"],
    [rel |-> <<"g.js">>,      data |-> <<239, 187>>,         acc |-> "ok"],
    [rel |-> <<"m.mjs">>,     data |-> <<239>>,              acc |-> "ok"],
    [rel |-> <<"i.yaml">>,    data |-> BOM \o Brace,         acc |-> "noperm"],
    [rel |-> <<"é.ts">>,      data |-> BOM,                  acc |-> "ok"],
    [rel |-> <<"sub", "d.yaml">>,  data |-> BOM,             acc |-> "ok"],
    [rel |-> <<"sub", "a.json">>,  data |-> BOM \o Brace,    acc |-> "ok"],
    [rel |-> <<"sub", "h.jsonc">>, data |-> BOM \o Brace,    acc |-> "ok"],
    [rel |-> <<"sub", "n.yml">>,   data |-> BOM,             acc |-> "ok"],
    [rel |-> <<"sub", "e.js">>,    data |-> <<>>,            acc |-> "ok"],
    [rel |-> <<"sub", "o.ts">>,    data |-> <<239, 187, 0, 191>>, acc |-> "ok"],
    [rel |-> <<"sub", "j.js">>,    data |-> BOM,             acc |-> "ioerr"],
    [rel |-> <<"sub", "x.json", "f.mjs">>, data |-> BOM \o Brace, acc |-> "ok"],
    [rel |-> <<"sub", "x.json", "p.js">>,  data |-> BOM,     acc |-> "ok"],
    [rel |-> <<"locked", "k.json">>, data |-> BOM,           acc |-> "ok"] }

\* The tree holding the skeleton and the chosen files.
TreeOf(files) ==
  LET paths == {Root \o f.rel : f \in files}
      entry(p) == LET f == CHOOSE g \in files : Root \o g.rel = p
                  IN  File(f.data, f.acc)
  IN  [p \in paths |-> entry(p)] @@ Skeleton

\* The root is absent, or names a regular file instead of a directory.
NoTree == [p \in {} |-> Dir("ok")]
RootIsFile == (Root :> File(BOM, "ok"))

Trees ==
  {TreeOf(files) : files \in {F \in SUBSET Catalog : Cardinality(F) <= MaxFiles}}
  \cup {NoTree, RootIsFile}

Encodings == {"utf-8", "ascii"}

\* ---------------------------------------------------- library calls on a tree
\* os.scandir(top) inside os.walk: the error it raises, or "ok".
ScandirError(tree, top) ==
  IF top \notin DOMAIN tree THEN "FileNotFoundError"
  ELSE IF tree[top].kind # "dir" THEN "NotADirectoryError"
  ELSE IF tree[top].acc = "noperm" THEN "PermissionError"
  ELSE "ok"

\* The names directly under the directory top, split as os.walk splits them.
Children(tree, top) ==
  {p \in DOMAIN tree : Len(p) = Len(top) + 1 /\ SubSeq(p, 1, Len(top)) = top}
DirNames(tree, top) ==
  {p[Len(p)] : p \in {q \in Children(tree, top) : tree[q].kind = "dir"}}
FileNames(tree, top) ==
  {p[Len(p)] : p \in {q \in Children(tree, top) : tree[q].kind = "file"}}

\* A listing that does not descend into the subdirectories.
NoSubdirs(top, dirs) == <<>>

\* The subdirectories os.walk goes into after top, in the order of dirnames.
Subdirs(top, dirs) == [i \in DOMAIN dirs |-> Join(top, dirs[i])]

\* open(path, mode): the error it raises, or "ok".
OpenError(tree, p) ==
  IF p \notin DOMAIN tree THEN "FileNotFoundError"
  ELSE IF tree[p].kind = "dir" THEN "IsADirectoryError"
  ELSE IF tree[p].acc = "noperm" THEN "PermissionError"
  ELSE "ok"

\* What open(path, mode) does to the tree: a write mode truncates the file,
\* a read mode changes nothing.
FsAfterOpen(tree, p, mode) ==
  IF mode \in {"w", "wb"} /\ OpenError(tree, p) = "ok"
    THEN [tree EXCEPT ![p].data = <<>>]
    ELSE tree

\* f.read(n): the error it raises, or "ok".
ReadError(tree, p) == IF tree[p].acc = "ioerr" THEN "OSError" ELSE "ok"

\* ------------------------------------------------------------------ state
VARIABLES
  fs,         \* the file system: path -> entry
  fs0,        \* history: the file system before the first run
  enc,        \* the encoding of sys.stdout
  pc,         \* where the program is: walk, files, open, read, check, emit,
              \* done (normal end), crashed (uncaught exception)
  stack,      \* os.walk: the directories still to list, next first
  dirpath,    \* the directory os.walk yielded last
  filenames,  \* the names of that directory the for loop has not taken yet
  path,       \* os.path.join(dirpath, name) of the file being checked
  head,       \* the bytes f.read returned
  out,        \* the lines written to standard output by this run
  outs,       \* the standard output of the runs that ended before this one
  visited,    \* history: the files whose loop iteration has ended, in order
  opened,     \* history: the paths handed to open
  readlog     \* history: <<path, bytes read from it>>

vars ==
  <<fs, fs0, enc, pc, stack, dirpath, filenames, path, head, out, outs, visited,
    opened, readlog>>

Init ==
  /\ fs \in Trees
  /\ fs0 = fs
  /\ enc \in Encodings
  /\ pc = "walk"
  /\ stack = <<Root>>
  /\ dirpath = <<>>
  /\ filenames = <<>>
  /\ path = <<>>
  /\ head = <<>>
  /\ out = <<>>
  /\ outs = <<>>
  /\ visited = <<>>
  /\ opened = {}
  /\ readlog = {}

\* The iteration of the for loop over the current name ends normally.
EndIteration ==
  /\ pc' = "files"
  /\ filenames' = Tail(filenames)
  /\ visited' = Append(visited, path)

\* An exception exc is raised inside the try block.
Raise(exc) ==
  IF Caught(exc)
    THEN /\ pc' = "files"
         /\ filenames' = ExceptPass(filenames)
         /\ visited' = Append(visited, path)
    ELSE /\ pc' = "crashed"
         /\ UNCHANGED <<filenames, visited>>

\* os.walk lists the next directory and yields it: its files and its
\* subdirectories, each in the order the listing happens to return.
WalkYield ==
  /\ pc = "walk"
  /\ stack # <<>>
  /\ ScandirError(fs, Head(stack)) = "ok"
  /\ \E names \in Perms(FileNames(fs, Head(stack))),
        dirs \in Perms(DirNames(fs, Head(stack))) :
       /\ filenames' = names
       /\ stack' = Subdirs(Head(stack), dirs) \o Tail(stack)
  /\ dirpath' = Head(stack)
  /\ pc' = "files"
  /\ UNCHANGED <<fs, fs0, enc, path, head, out, outs, visited, opened, readlog>>

\* os.walk cannot list the next directory: without onerror it goes on.
WalkSkip ==
  /\ pc = "walk"
  /\ stack # <<>>
  /\ ScandirError(fs, Head(stack)) # "ok"
  /\ IF WalkOnError = "ignore"
       THEN pc' = "walk" /\ stack' = Tail(stack)
       ELSE pc' = "crashed" /\ stack' = stack
  /\ UNCHANGED <<fs, fs0, enc, dirpath, filenames, path, head, out, outs, visited,
                 opened, readlog>>

\* os.walk is exhausted: the program ends.
WalkDone ==
  /\ pc = "walk"
  /\ stack = <<>>
  /\ pc' = "done"
  /\ UNCHANGED <<fs, fs0, enc, stack, dirpath, filenames, path, head, out, outs,
                 visited, opened, readlog>>

\* The for loop over filenames is exhausted: back to os.walk.
ForDone ==
  /\ pc = "files"
  /\ filenames = <<>>
  /\ pc' = "walk"
  /\ UNCHANGED <<fs, fs0, enc, stack, dirpath, filenames, path, head, out, outs,
                 visited, opened, readlog>>

\* The next name does not end with a recognised suffix: nothing is done.
ForSkip ==
  /\ pc = "files"
  /\ filenames # <<>>
  /\ ~EndsWithAny(Head(filenames))
  /\ filenames' = Tail(filenames)
  /\ visited' = Append(visited, Join(dirpath, Head(filenames)))
  /\ UNCHANGED <<fs, fs0, enc, pc, stack, dirpath, path, head, out, outs, opened,
                 readlog>>

\* The next name ends with a recognised suffix: it becomes the candidate.
ForCandidate ==
  /\ pc = "files"
  /\ filenames # <<>>
  /\ EndsWithAny(Head(filenames))
  /\ path' = Join(dirpath, Head(filenames))
  /\ pc' = "open"
  /\ UNCHANGED <<fs, fs0, enc, stack, dirpath, filenames, head, out, outs, visited,
                 opened, readlog>>

\* open(path, 'rb')
OpenFile ==
  /\ pc = "open"
  /\ opened' = opened \cup {path}
  /\ fs' = FsAfterOpen(fs, path, OpenMode)
  /\ IF OpenError(fs, path) = "ok"
       THEN pc' = "read" /\ UNCHANGED <<filenames, visited>>
       ELSE Raise(OpenError(fs, path))
  /\ UNCHANGED <<fs0, enc, stack, dirpath, path, head, out, outs, readlog>>

\* head = f.read(3), then the file is closed
ReadHead ==
  /\ pc = "read"
  /\ IF ReadError(fs, path) = "ok"
       THEN /\ head' = Read(fs[path].data, ReadSize)
            /\ readlog' = readlog \cup {<<path, head'>>}
            /\ pc' = "check"
            /\ UNCHANGED <<filenames, visited>>
       ELSE /\ Raise(ReadError(fs, path))
            /\ UNCHANGED <<head, readlog>>
  /\ UNCHANGED <<fs, fs0, enc, stack, dirpath, path, out, outs, opened>>

\* if head.startswith(b'\xef\xbb\xbf')
CheckHead ==
  /\ pc = "check"
  /\ IF StartsWith(head, BOM) THEN pc' = "emit" /\ UNCHANGED <<filenames, visited>>
                              ELSE EndIteration
  /\ UNCHANGED <<fs, fs0, enc, stack, dirpath, path, head, out, outs, opened, readlog>>

\* rel = os.path.relpath(path, root); print(rel)
Emit ==
  /\ pc = "emit"
  /\ LET line == PathStr(RelPath(path, Root))
     IN  IF CanEncode(enc, line)
           THEN out' = WriteLine(out, line) /\ EndIteration
           ELSE out' = out /\ Raise("UnicodeEncodeError")
  /\ UNCHANGED <<fs, fs0, enc, stack, dirpath, path, head, outs, opened, readlog>>

\* The program is run again over the tree the previous run left.
Rerun ==
  /\ pc = "done"
  /\ Len(outs) + 1 < NumRuns
  /\ outs' = Append(outs, out)
  /\ pc' = "walk"
  /\ stack' = <<Root>>
  /\ dirpath' = <<>>
  /\ filenames' = <<>>
  /\ path' = <<>>
  /\ head' = <<>>
  /\ out' = <<>>
  /\ visited' = <<>>
  /\ opened' = {}
  /\ readlog' = {}
  /\ UNCHANGED <<fs, fs0, enc>>

Next ==
  \/ WalkYield
  \/ WalkSkip
  \/ WalkDone
  \/ ForDone
  \/ ForSkip
  \/ ForCandidate
  \/ OpenFile
  \/ ReadHead
  \/ CheckHead
  \/ Emit
  \/ Rerun

Spec == Init /\ [][Next]_vars

\* ------------------------------------------------- vocabulary of the claims
\* The recognised suffixes and the byte order mark, as the claims state them.
Suffixes == {".json", ".jsonc", ".mjs", ".js", ".ts", ".yaml", ".yml"}
Suffixed(name) ==
  \E k \in 0..Len(name) : SubSeq(name, k + 1, Len(name)) \in Suffixes
BeginsWithBOM(data) ==
  Len(data) >= 3 /\ data[1] = 239 /\ data[2] = 187 /\ data[3] = 191

\* The files of the tree below the root, a file's name and its root-relative
\* path as text.
FilesUnderRoot ==
  {p \in DOMAIN fs :
     fs[p].kind = "file" /\ Len(p) > Len(Root) /\ SubSeq(p, 1, Len(Root)) = Root}
NameOf(p) == p[Len(p)]
RelText(p) == PathStr(SubSeq(p, Len(Root) + 1, Len(p)))

\* The traversal reaches the file: every directory from the root down to the
\* one holding it can be listed.
Listed(p) ==
  \A k \in Len(Root)..(Len(p) - 1) :
     LET d == SubSeq(p, 1, k)
     IN  d \in DOMAIN fs /\ fs[d].kind = "dir" /\ fs[d].acc = "ok"

\* A candidate: a listed file with a recognised suffix.
Candidate(p) == p \in FilesUnderRoot /\ Listed(p) /\ Suffixed(NameOf(p))

\* Opening or reading the candidate fails.
Unreadable(p) == Candidate(p) /\ fs[p].acc # "ok"

\* The candidate is read without error and its first three bytes are the BOM.
Matching(p) == Candidate(p) /\ fs[p].acc = "ok" /\ BeginsWithBOM(fs[p].data)

\* A matching candidate whose line standard output can encode.
Writable(p) == Matching(p) /\ CanEncode(enc, RelText(p))

Occurrences(seq, x) == Cardinality({i \in DOMAIN seq : seq[i] = x})

\* The lines of a sequence of files.
LinesOf(files) == [i \in DOMAIN files |-> RelText(files[i])]

\* Position of a file among the visited ones, 0 when it is not there.
Position(p) ==
  IF \E i \in DOMAIN visited : visited[i] = p
    THEN CHOOSE i \in DOMAIN visited : visited[i] = p
    ELSE 0

\* The scan has not been ended by an exception: the file in hand can be
\* opened or read, and the for loop can go on with the names that remain.
NotAborted ==
  /\ pc # "crashed"
  /\ pc \in {"open", "read"} => ENABLED (OpenFile \/ ReadHead)
  /\ pc = "files" => ENABLED (ForDone \/ ForSkip \/ ForCandidate)

\* A completed scan has opened every candidate.
AllCandidatesChecked ==
  pc = "done" => \A p \in FilesUnderRoot : Candidate(p) => p \in opened

\* ------------------------------------------------------------------ claims
\* C1 as stated: after a completed scan every file under the root with a
\* recognised suffix whose content begins with EF BB BF has its root-relative
\* path in the output exactly once.
C1_EveryBomFileReportedOnce ==
  pc = "done" =>
    \A p \in FilesUnderRoot :
       (Suffixed(NameOf(p)) /\ BeginsWithBOM(fs[p].data))
         => Occurrences(out, RelText(p)) = 1

\* C1 as amended: after a completed scan every file with a recognised suffix
\* that the traversal lists, that is opened and read without error, whose
\* first three bytes are EF BB BF and whose path standard output can encode
\* has its root-relative path in the output exactly once.
C1_EveryWritableBomFileReportedOnce ==
  pc = "done" =>
    \A p \in FilesUnderRoot : Writable(p) => Occurrences(out, RelText(p)) = 1

\* A completed scan that reported a file two directories below the root and
\* a second file, each once.
C1_Witness ==
  /\ pc = "done"
  /\ \E p, q \in FilesUnderRoot :
       /\ p # q
       /\ Len(p) = Len(Root) + 3
       /\ Writable(p) /\ Writable(q)
       /\ Occurrences(out, RelText(p)) = 1
       /\ Occurrences(out, RelText(q)) = 1

\* C2: every line of the output is the root-relative path of a file that was
\* opened and read in this scan and whose three bytes read were EF BB BF, and
\* no file whose content does not begin with EF BB BF is in the output.
C2_Soundness ==
  /\ \A i \in DOMAIN out :
       \E p \in FilesUnderRoot :
          /\ RelText(p) = out[i]
          /\ p \in opened
          /\ <<p, <<239, 187, 191>> >> \in readlog
  /\ \A p \in FilesUnderRoot :
       ~BeginsWithBOM(fs[p].data) => \A i \in DOMAIN out : out[i] # RelText(p)

\* A scan has passed a recognised file without the BOM and has reported a
\* file in a subdirectory.
C2_Witness ==
  /\ \E p \in FilesUnderRoot :
       /\ Suffixed(NameOf(p)) /\ Len(fs[p].data) >= 3 /\ ~BeginsWithBOM(fs[p].data)
       /\ Position(p) > 0
  /\ \E q \in FilesUnderRoot :
       Len(q) > Len(Root) + 1 /\ Occurrences(out, RelText(q)) = 1

\* C3: a file whose name does not end, case-sensitively, with a recognised
\* suffix is never opened, never read and never in the output.
C3_ExtensionFilter ==
  \A p \in FilesUnderRoot :
     ~Suffixed(NameOf(p)) =>
        /\ p \notin opened
        /\ \A e \in readlog : e[1] # p
        /\ \A i \in DOMAIN out : out[i] # RelText(p)

\* A completed scan over a tree holding X.JSON and c.txt, both beginning
\* with the BOM, which the loop has passed.
C3_Witness ==
  /\ pc = "done"
  /\ \E p, q \in FilesUnderRoot :
       /\ NameOf(p) = "X.JSON" /\ NameOf(q) = "c.txt"
       /\ BeginsWithBOM(fs[p].data) /\ BeginsWithBOM(fs[q].data)
       /\ Position(p) > 0 /\ Position(q) > 0

\* C4: a candidate that cannot be opened or read is not reported, the scan
\* is not aborted, every other file visited is reported as it would be
\* without the failing ones (once when it is a writable match, else not at
\* all), and a completed scan has checked every candidate.
C4_FailureIsolation ==
  /\ NotAborted
  /\ \A p \in FilesUnderRoot :
       Unreadable(p) => \A i \in DOMAIN out : out[i] # RelText(p)
  /\ \A q \in Range(visited) :
       ~Unreadable(q) =>
          Occurrences(out, RelText(q)) = (IF Writable(q) THEN 1 ELSE 0)
  /\ AllCandidatesChecked

\* A completed scan in which a candidate failed to open or to read and a
\* candidate visited after it was reported.
C4_Witness ==
  /\ pc = "done"
  /\ \E p, q \in FilesUnderRoot :
       /\ Unreadable(p) /\ p \in opened
       /\ Writable(q)
       /\ 0 < Position(p) /\ Position(p) < Position(q)
       /\ Occurrences(out, RelText(q)) = 1

\* C5 as stated: when the root does not exist or is not a directory the scan
\* does not end normally.
C5_BadRootIsFatal ==
  ScandirError(fs, Root) \in {"FileNotFoundError", "NotADirectoryError"}
    => pc # "done"

\* C5 as amended: when the root does not exist or is not a directory, the
\* traversal drops the listing error: no exception ends the program, nothing
\* is opened or written, and the scan ends normally with empty output.
C5_BadRootEndsNormally ==
  ScandirError(fs, Root) \in {"FileNotFoundError", "NotADirectoryError"}
    => /\ pc \in {"walk", "done"}
       /\ pc = "walk" => ENABLED (WalkSkip \/ WalkDone)
       /\ out = <<>>
       /\ opened = {}

\* The scan of a root that is a regular file has ended normally.
C5_Witness ==
  /\ Root \in DOMAIN fs
  /\ ScandirError(fs, Root) = "NotADirectoryError"
  /\ pc = "done"

\* C6: a candidate of 0, 1 or 2 bytes is never reported, also when its bytes
\* are a proper prefix of the BOM; it is read short without error, the scan
\* is not aborted and a completed scan has checked every candidate.
C6_ShortFiles ==
  /\ \A p \in FilesUnderRoot :
       Len(fs[p].data) < 3 =>
          /\ \A i \in DOMAIN out : out[i] # RelText(p)
          /\ \A e \in readlog : e[1] = p => e[2] = fs[p].data
  /\ pc # "crashed"
  /\ AllCandidatesChecked

\* A completed scan that read a two-byte candidate EF BB and, after it,
\* another candidate.
C6_Witness ==
  /\ pc = "done"
  /\ \E p, q \in FilesUnderRoot :
       /\ <<p, <<239, 187>> >> \in readlog
       /\ q \in opened
       /\ 0 < Position(p) /\ Position(p) < Position(q)

\* C7 as stated: at every point of the scan the output is the sequence of
\* the matching files among those visited, in the order visited.
C7_OutputIsMatchingVisited ==
  out = LinesOf(SelectSeq(visited, Matching))

\* C7 as amended: at every point of the scan, so before the next candidate
\* is opened and after the traversal has completed, the output is the
\* sequence of the matching files among those visited whose line standard
\* output could encode, one line each, in the order visited.
C7_OutputIsWritableVisited ==
  out = LinesOf(SelectSeq(visited, Writable))

\* The next candidate is about to be opened while the line of the matching
\* file visited before it is already written.
C7_Witness ==
  /\ pc = "open"
  /\ Len(out) = 1
  /\ \E p \in FilesUnderRoot :
       Position(p) > 0 /\ Matching(p) /\ out[1] = RelText(p)
  /\ path \notin Range(visited)

\* C8: no step of the scan changes the tree, and from each candidate at most
\* the first 3 bytes are read.
C8_ReadOnlyBoundedRead ==
  /\ fs = fs0
  /\ \A e \in readlog :
       /\ Len(e[2]) <= 3
       /\ e[2] = SubSeq(fs0[e[1]].data, 1, Len(e[2]))

\* A completed scan that opened and read a candidate longer than 3 bytes.
C8_Witness ==
  /\ pc = "done"
  /\ \E e \in readlog : e[1] \in opened /\ Len(fs[e[1]].data) > 3 /\ Len(e[2]) = 3

\* C9: every run that has completed over the tree reported the same set of
\* paths as the runs before it, whatever order each listing returned.
C9_Idempotence ==
  pc = "done" => \A i \in DOMAIN outs : Range(outs[i]) = Range(out)

\* Two completed runs that wrote the same two paths in different orders.
C9_Witness ==
  /\ pc = "done"
  /\ Len(outs) >= 1
  /\ Len(out) = 2
  /\ out # outs[1]

\* C10: a matching candidate whose line cannot be written is left out of the
\* output, the exception does not end the program, and the candidates after
\* it are still checked: a completed scan has opened every candidate.
C10_EmissionFailureSwallowed ==
  /\ \A p \in FilesUnderRoot :
       (Matching(p) /\ ~CanEncode(enc, RelText(p)))
         => \A i \in DOMAIN out : out[i] # RelText(p)
  /\ pc # "crashed"
  /\ pc = "emit" => ENABLED Emit
  /\ AllCandidatesChecked

\* A completed scan in which a matching candidate could not be written and a
\* candidate visited after it was reported.
C10_Witness ==
  /\ pc = "done"
  /\ \E p, q \in FilesUnderRoot :
       /\ Matching(p) /\ ~CanEncode(enc, RelText(p))
       /\ <<p, <<239, 187, 191>> >> \in readlog
       /\ 0 < Position(p) /\ Position(p) < Position(q)
       /\ Occurrences(out, RelText(q)) = 1

====
